---------------------------- MODULE Spec2Model ----------------------------
(***************************************************************************)
(* A model of the polycube packing solver (src/src/puzzle.rs,              *)
(* src/src/solver.rs, src/src/main.rs).                                    *)
(*                                                                         *)
(* A Bitset (a u64 in the source) is modelled as the set of its set bit    *)
(* positions, a subset of 0..WordBits-1: union is \cup, intersection is    *)
(* \cap, xor is the symmetric difference.  A Coord is a record [x, y, z],  *)
(* an Orientation a sequence of Coords (Vec<Coord>), a placement list a    *)
(* sequence of Bitsets (Vec<Placement>).                                   *)
(***************************************************************************)
EXTENDS Integers, Sequences, FiniteSets, TLC

\* ------------------------------------------------------------------------
\* Constants of the program
\* ------------------------------------------------------------------------

\* width of the machine word behind Bitset(pub u64)
WordBits == 64

\* side of the reference frame in which Orientation is hashed and compared
FrameSide == 4

\* ------------------------------------------------------------------------
\* Generic helpers
\* ------------------------------------------------------------------------

MinOf(S) == CHOOSE m \in S : \A n \in S : m <= n

MaxOf(S) == CHOOSE m \in S : \A n \in S : m >= n

\* the elements of a finite set of integers, in increasing order
SortedSeq(S) ==
    [n \in 1..Cardinality(S) |->
        CHOOSE i \in S : Cardinality({j \in S : j < i}) = n - 1]

Range(s) == {s[i] : i \in 1..Len(s)}

\* s with its idx-th element removed (Vec::remove, 1-based here)
RemoveAt(s, idx) ==
    [i \in 1..(Len(s) - 1) |-> IF i < idx THEN s[i] ELSE s[i + 1]]

RECURSIVE Flatten(_)
Flatten(ss) == IF ss = <<>> THEN <<>> ELSE Head(ss) \o Flatten(Tail(ss))

\* ------------------------------------------------------------------------
\* Bitset
\* ------------------------------------------------------------------------

\* the bit positions set in the integer literal n (n < 2^31)
BitsetOf(n) == {i \in 0..30 : (n \div (2 ^ i)) % 2 = 1}

empty == {}

intersects(a, b) == (a \cap b) # {}

\* xor that sets bits and never clears one
xor_as_union(a, b) == a \cup b

xor(a, b) == (a \ b) \cup (b \ a)

union(a, b) == a \cup b

\* ------------------------------------------------------------------------
\* Coord and its three quarter turns
\* ------------------------------------------------------------------------

Coord(x, y, z) == [x |-> x, y |-> y, z |-> z]

rotate_x(c) == [x |-> c.x, y |-> 0 - c.z, z |-> c.y]

rotate_y(c) == [x |-> c.z, y |-> c.y, z |-> 0 - c.x]

rotate_z(c) == [x |-> 0 - c.y, y |-> c.x, z |-> c.z]

\* one 3-digit code of the shape column becomes one Coord
from_str(codes) ==
    [i \in 1..Len(codes) |-> Coord(codes[i][1], codes[i][2], codes[i][3])]

\* ------------------------------------------------------------------------
\* Orientation
\* ------------------------------------------------------------------------

\* the linearisation z*Y*X + y*X + x; 1 << index sets that bit.  The shift
\* is taken modulo the word width, as the release build does.
from_orientation(o, dim) ==
    {(o[i].z * dim.y * dim.x + o[i].y * dim.x + o[i].x) % WordBits :
        i \in 1..Len(o)}

RECURSIVE TurnX(_, _)
TurnX(o, n) ==
    IF n = 0 THEN o
    ELSE TurnX([i \in 1..Len(o) |-> rotate_x(o[i])], n - 1)

RECURSIVE TurnY(_, _)
TurnY(o, n) ==
    IF n = 0 THEN o
    ELSE TurnY([i \in 1..Len(o) |-> rotate_y(o[i])], n - 1)

RECURSIVE TurnZ(_, _)
TurnZ(o, n) ==
    IF n = 0 THEN o
    ELSE TurnZ([i \in 1..Len(o) |-> rotate_z(o[i])], n - 1)

\* Orientation::rotate: x turns about x, then y about y, then z about z,
\* then the minimum of each axis is subtracted
rotate(o, x, y, z) ==
    LET r == TurnZ(TurnY(TurnX(o, x), y), z)
        min_x == MinOf({r[i].x : i \in 1..Len(r)})
        min_y == MinOf({r[i].y : i \in 1..Len(r)})
        min_z == MinOf({r[i].z : i \in 1..Len(r)})
    IN  [i \in 1..Len(r) |->
            Coord(r[i].x - min_x, r[i].y - min_y, r[i].z - min_z)]

bounds(o) ==
    Coord(MaxOf({o[i].x : i \in 1..Len(o)}),
          MaxOf({o[i].y : i \in 1..Len(o)}),
          MaxOf({o[i].z : i \in 1..Len(o)}))

\* the key under which Hash and PartialEq identify two Orientations
OrientationKey(o) ==
    from_orientation(o, Coord(FrameSide, FrameSide, FrameSide))

\* Itertools::unique: the first occurrence of every key, in order
unique(os) ==
    LET kept == {i \in 1..Len(os) :
                    \A j \in 1..(i - 1) :
                        OrientationKey(os[j]) # OrientationKey(os[i])}
        idx  == SortedSeq(kept)
    IN  [n \in 1..Len(idx) |-> os[idx[n]]]

\* the six orientations pushed in one pass of the loop of orientations()
SixOf(cur) ==
    << cur,
       rotate(cur, 0, 1, 0),
       rotate(cur, 0, 3, 0),
       rotate(cur, 0, 0, 1),
       rotate(cur, 0, 0, 2),
       rotate(cur, 0, 0, 3) >>

\* Piece::orientations: the base as given, then five turns of it, and the
\* same for each of three further quarter turns about x; then unique()
orientations(base) ==
    LET c1 == base
        c2 == rotate(c1, 1, 0, 0)
        c3 == rotate(c2, 1, 0, 0)
        c4 == rotate(c3, 1, 0, 0)
    IN  unique(SixOf(c1) \o SixOf(c2) \o SixOf(c3) \o SixOf(c4))

\* ------------------------------------------------------------------------
\* Puzzle: placements, full mask, assembly
\* ------------------------------------------------------------------------

\* number of values of the range 0..n (exclusive upper end)
RangeLen(n) == IF n > 0 THEN n ELSE 0

unique_placements(ori, dim) ==
    LET b  == bounds(ori)
        nx == RangeLen(dim.x - b.x)
        ny == RangeLen(dim.y - b.y)
        nz == RangeLen(dim.z - b.z)
    IN  [n \in 1..(nx * ny * nz) |->
            LET x_off == (n - 1) \div (ny * nz)
                y_off == ((n - 1) \div nz) % ny
                z_off == (n - 1) % nz
                new_pos == [i \in 1..Len(ori) |->
                               Coord(ori[i].x + x_off,
                                     ori[i].y + y_off,
                                     ori[i].z + z_off)]
            IN  from_orientation(new_pos, dim)]

piece_placements(base, dim) ==
    LET os == orientations(base)
    IN  Flatten([n \in 1..Len(os) |-> unique_placements(os[n], dim)])

full(dim) ==
    {z * dim.y * dim.x + y * dim.x + x :
        x \in 0..(dim.x - 1), y \in 0..(dim.y - 1), z \in 0..(dim.z - 1)}

\* (blocks as f64).cbrt().round()
CbrtRound(n) ==
    CHOOSE d \in 0..n :
        /\ (2 * d - 1) * (2 * d - 1) * (2 * d - 1) <= 8 * n
        /\ 8 * n < (2 * d + 1) * (2 * d + 1) * (2 * d + 1)

RECURSIVE SumLen(_)
SumLen(ss) == IF ss = <<>> THEN 0 ELSE Len(Head(ss)) + SumLen(Tail(ss))

\* Puzzle::from_csv on a file that opens and parses: rows is the shape
\* column of the file, one sequence of 3-digit codes per piece
from_csv(rows) ==
    LET bases  == [p \in 1..Len(rows) |-> from_str(rows[p])]
        blocks == SumLen(bases)
        d      == CbrtRound(blocks)
        dim    == Coord(d, d, d)
    IN  [pieces |-> [p \in 1..Len(rows) |->
                        [base |-> bases[p],
                         placements |-> piece_placements(bases[p], dim)]],
         dim    |-> dim,
         full   |-> full(dim)]

\* ------------------------------------------------------------------------
\* Arrangement
\* ------------------------------------------------------------------------

new == [occupied |-> empty, placements |-> <<>>]

push(a, piece, placement) ==
    [occupied   |-> union(a.occupied, placement),
     placements |-> Append(a.placements, <<piece, placement>>)]

\* pop that removes the last entry and leaves occupied as it is
pop_keeps_occupied(a) ==
    [occupied   |-> a.occupied,
     placements |-> SubSeq(a.placements, 1, Len(a.placements) - 1)]

\* the arrangement after Arrangement::pop (the popped pair is discarded by
\* every caller)
pop(a) ==
    IF a.placements # <<>>
    THEN LET last == a.placements[Len(a.placements)]
         IN  [occupied   |-> xor(a.occupied, last[2]),
              placements |-> SubSeq(a.placements, 1, Len(a.placements) - 1)]
    ELSE a

\* ------------------------------------------------------------------------
\* Solver: the two feasibility predicates and the target cell
\* ------------------------------------------------------------------------

\* piece ids are 0-based as in the source; sequences are 1-based
PlacementsOf(puzzle, pid) == puzzle.pieces[pid + 1].placements

\* the inner loop of has_full_coverage over one piece: the placements that
\* pass !tmp.intersects are united into coverage in list order.  hit is the
\* early return, taken when coverage equals the full mask right after one
\* of them; if coverage equals the full mask after the last of them, it did
\* so right after the last one that was united.
CoverPlacements(pls, tmp, coverage, fullmask) ==
    LET taken  == {n \in 1..Len(pls) : ~intersects(tmp, pls[n])}
        cov(n) == coverage \cup UNION {pls[j] : j \in {e \in taken : e <= n}}
        last   == cov(Len(pls))
    IN  [hit      |-> /\ taken # {}
                      /\ fullmask \subseteq last
                      /\ \/ last = fullmask
                         \/ \E n \in taken : cov(n) = fullmask,
         coverage |-> last]

\* the outer loop of has_full_coverage, from the i-th listed piece on
RECURSIVE CoverPieces(_, _, _, _, _)
CoverPieces(puzzle, pieces, i, tmp, coverage) ==
    IF i > Len(pieces) THEN [hit |-> FALSE, coverage |-> coverage]
    ELSE LET r == CoverPlacements(PlacementsOf(puzzle, pieces[i]), tmp,
                                  coverage, puzzle.full)
         IN  IF r.hit THEN r
             ELSE CoverPieces(puzzle, pieces, i + 1, tmp, r.coverage)

\* has_full_coverage without the test after the loops
has_full_coverage_no_final_test(puzzle, tmp, pieces) ==
    CoverPieces(puzzle, pieces, 1, tmp, tmp).hit

has_full_coverage(puzzle, tmp, pieces) ==
    LET r == CoverPieces(puzzle, pieces, 1, tmp, tmp)
    IN  r.hit \/ r.coverage = puzzle.full

\* returns false as soon as, for some listed piece, all() of its placements
\* satisfy !tmp.intersects(placement)
can_pieces_fit(puzzle, tmp, pieces) ==
    ~ \E i \in 1..Len(pieces) :
          \A n \in 1..Len(PlacementsOf(puzzle, pieces[i])) :
              ~intersects(tmp, PlacementsOf(puzzle, pieces[i])[n])

\* new_cube with the scan started one bit above prev
new_cube_skips_prev(occupied, prev) ==
    LET cube == MinOf({c \in (prev + 1)..WordBits :
                          c = WordBits \/ c \notin occupied})
    IN  [cube |-> cube, mask |-> IF cube < WordBits THEN {cube} ELSE {}]

\* scan upward from prev while the bit is set; the mask is shifted out of
\* the word (and the loop stops) when cube reaches WordBits
new_cube(occupied, prev) ==
    LET cube == MinOf({c \in prev..WordBits :
                          c = WordBits \/ c \notin occupied})
    IN  [cube |-> cube, mask |-> IF cube < WordBits THEN {cube} ELSE {}]

\* the condition of the if inside the two loops of solve_board, for the
\* n-th placement of the idx-th remaining piece
Accepts(puzzle, a, mask, remaining, idx, n) ==
    LET pid          == remaining[idx]
        other_pieces == RemoveAt(remaining, idx)
        placement    == PlacementsOf(puzzle, pid)[n]
        new_board    == union(a.occupied, placement)
    IN  /\ ~intersects(a.occupied, placement)
        /\ intersects(placement, mask)
        /\ has_full_coverage(puzzle, new_board, other_pieces)
        /\ can_pieces_fit(puzzle, new_board, other_pieces)

\* the positions <<idx, n>> of the two nested loops that are still to come
\* from <<idx0, n0>> on and whose condition holds
Candidates(puzzle, a, mask, remaining, idx0, n0) ==
    UNION {{<<i, n>> : n \in {m \in 1..Len(PlacementsOf(puzzle, remaining[i])) :
                                /\ (i > idx0 \/ m >= n0)
                                /\ Accepts(puzzle, a, mask, remaining, i, m)}} :
           i \in idx0..Len(remaining)}

\* the first of a non-empty set of loop positions, in loop order
FirstOf(C) ==
    CHOOSE c \in C : \A e \in C : c[1] < e[1] \/ (c[1] = e[1] /\ c[2] <= e[2])

\* the two literal starting placements of begin
StartPlacements == <<BitsetOf(626), BitsetOf(41025536)>>

\* enumerate().min_by_key(placements.len()): the first piece with the
\* fewest placements, 0-based
Constrained(puzzle) ==
    LET n == Len(puzzle.pieces)
        least == MinOf({Len(puzzle.pieces[p].placements) : p \in 1..n})
    IN  MinOf({p \in 1..n : Len(puzzle.pieces[p].placements) = least}) - 1

\* ------------------------------------------------------------------------
\* Inputs
\* ------------------------------------------------------------------------

\* largest number of rows of a puzzle file built from the pool
MaxPieces == 2

one    == <<<<0,0,0>>>>
I2     == <<<<0,0,0>>, <<1,0,0>>>>
L3     == <<<<0,0,0>>, <<1,0,0>>, <<0,1,0>>>>
square == <<<<0,0,0>>, <<1,0,0>>, <<0,1,0>>, <<1,1,0>>>>
tripod == <<<<0,0,0>>, <<1,0,0>>, <<0,1,0>>, <<0,0,1>>>>
plus   == <<<<1,0,0>>, <<0,1,0>>, <<1,1,0>>, <<2,1,0>>, <<1,2,0>>>>
six    == <<<<0,0,0>>, <<1,0,0>>, <<2,0,0>>, <<0,1,0>>, <<1,1,0>>, <<2,1,0>>>>
slab   == <<<<0,0,0>>, <<1,0,0>>, <<2,0,0>>, <<0,1,0>>, <<1,1,0>>, <<2,1,0>>,
            <<0,2,0>>, <<1,2,0>>, <<2,2,0>>>>

\* the codes of the cells of a cubic volume whose indices are in S
CodesOf(S, side) ==
    LET cells == SortedSeq(S)
    IN  [n \in 1..Len(cells) |->
            <<cells[n] % side, (cells[n] \div side) % side,
              cells[n] \div (side * side)>>]

\* the 22 cells of the 3x3x3 volume left free by the first start placement
rest == CodesOf((0..26) \ StartPlacements[1], 3)

\* the 59 cells of the 4x4x4 volume left free by the first start placement
rest4 == CodesOf((0..63) \ StartPlacements[1], 4)

\* one 4x4 layer
slab4 == CodesOf(0..15, 4)

ShapePool == {one, I2, L3, square, tripod}

\* every file of one to MaxPieces rows over the pool (volumes of side 1, 2)
PoolFiles == UNION {[1..k -> ShapePool] : k \in 1..MaxPieces}

\* files for the 3x3x3 volume: 27 cells in six pieces; 27 cells in two
\* pieces; 28 cells in three pieces (one cell too many).  Files for the
\* 4x4x4 volume (75 and 76 cells round to a side of 4): the first start
\* placement and rest4 fill the 64 cells, with and without a piece left over
CubeFiles ==
    { <<plus, slab, six, L3, I2, I2>>,
      <<plus, rest>>,
      <<plus, rest, one>>,
      <<slab4, rest4>>,
      <<slab4, rest4, one>> }

Files == PoolFiles \cup CubeFiles

\* ok is whether File::open and every record of the reader succeed
Inputs ==
    {[ok |-> TRUE, rows |-> f] : f \in Files}
        \cup {[ok |-> FALSE, rows |-> <<>>]}

\* ------------------------------------------------------------------------
\* State
\* ------------------------------------------------------------------------

VARIABLES
    input,        \* the puzzle file given on the command line
    pc,           \* where main is
    puzzle,       \* the Puzzle built by from_csv
    solver,       \* Solver: explored and solutions
    arrangement,  \* the Arrangement of begin
    bg,           \* the locals of begin: cid, remaining, loop index i
    stack,        \* the active calls of solve_board, innermost last
    call,         \* the library function called directly, with its arguments
    result        \* what that call returned

vars == <<input, pc, puzzle, solver, arrangement, bg, stack, call, result>>

\* no library function is called directly when the program runs from main
NoCall == [fn |-> "none"]

NoPuzzle == [pieces |-> <<>>, dim |-> Coord(0, 0, 0), full |-> {}]

build == [explored |-> 0, solutions |-> <<>>]

Frame(entered, prev, remaining) ==
    [at |-> "entry", entered |-> entered, prev |-> prev,
     remaining |-> remaining, cube |-> prev, mask |-> {}, idx |-> 1, n |-> 1]

Top == stack[Len(stack)]

SetTop(f) == [stack EXCEPT ![Len(stack)] = f]

Init ==
    /\ input \in Inputs
    /\ pc = "main"
    /\ puzzle = NoPuzzle
    /\ solver = build
    /\ arrangement = new
    /\ bg = [cid |-> 0, remaining |-> <<>>, i |-> 0]
    /\ stack = <<>>
    /\ call = NoCall
    /\ result = <<>>

\* main up to the call of begin: from_csv(...)? and Solver::build
MainParse ==
    /\ pc = "main"
    /\ IF input.ok
       THEN /\ puzzle' = from_csv(input.rows)
            /\ pc' = "begin"
       ELSE /\ puzzle' = puzzle
            /\ pc' = "exit_err"
    /\ solver' = build
    /\ UNCHANGED <<input, arrangement, bg, stack, call, result>>

\* begin up to its loop
Begin ==
    /\ pc = "begin"
    /\ arrangement' = new
    /\ LET cid == Constrained(puzzle)
       IN  bg' = [cid |-> cid,
                  remaining |-> SortedSeq((0..(Len(puzzle.pieces) - 1)) \ {cid}),
                  i |-> 1]
    /\ pc' = "begin_loop"
    /\ UNCHANGED <<input, puzzle, solver, stack, call, result>>

\* one pass of the loop of begin up to the call of solve_board, or the end
\* of the loop
BeginLoop ==
    /\ pc = "begin_loop"
    /\ IF bg.i <= Len(StartPlacements)
       THEN /\ arrangement' = push(arrangement, bg.cid, StartPlacements[bg.i])
            /\ stack' = <<Frame(arrangement', 0, bg.remaining)>>
            /\ pc' = "solve"
       ELSE /\ pc' = "summary"
            /\ UNCHANGED <<arrangement, stack>>
    /\ UNCHANGED <<input, puzzle, solver, bg, call, result>>

\* solve_board from its entry to its first loop test: count the node, record
\* the solution if nothing remains, otherwise find the target cell
SolveBoardEnter ==
    /\ pc = "solve"
    /\ Top.at = "entry"
    /\ IF Top.remaining = <<>>
       THEN /\ solver' = [explored  |-> solver.explored + 1,
                          solutions |-> Append(solver.solutions,
                                               arrangement.placements)]
            /\ stack' = SetTop([Top EXCEPT !.at = "ret"])
       ELSE /\ solver' = [solver EXCEPT !.explored = @ + 1]
            /\ LET t == new_cube(arrangement.occupied, Top.prev)
               IN  stack' = SetTop([Top EXCEPT !.at = "loop",
                                               !.cube = t.cube,
                                               !.mask = t.mask])
    /\ UNCHANGED <<input, pc, puzzle, arrangement, bg, call, result>>

\* the loops of solve_board up to the next placement that passes the test:
\* commit it and call solve_board, or leave the loops
SolveBoardLoop ==
    /\ pc = "solve"
    /\ Top.at = "loop"
    /\ LET C == Candidates(puzzle, arrangement, Top.mask, Top.remaining,
                           Top.idx, Top.n)
       IN  IF C # {}
           THEN LET c   == FirstOf(C)
                    pid == Top.remaining[c[1]]
                IN  /\ arrangement' =
                           push(arrangement, pid, PlacementsOf(puzzle, pid)[c[2]])
                    /\ stack' = Append(SetTop([Top EXCEPT !.idx = c[1],
                                                          !.n = c[2]]),
                                       Frame(arrangement', Top.cube,
                                             RemoveAt(Top.remaining, c[1])))
           ELSE /\ stack' = SetTop([Top EXCEPT !.at = "ret"])
                /\ UNCHANGED arrangement
    /\ UNCHANGED <<input, pc, puzzle, solver, bg, call, result>>

\* the return of solve_board and the arrangement.pop() that follows the call
\* in the caller (solve_board itself, or begin)
SolveBoardReturn ==
    /\ pc = "solve"
    /\ Top.at = "ret"
    /\ arrangement' = pop(arrangement)
    /\ IF Len(stack) > 1
       THEN /\ stack' = [SubSeq(stack, 1, Len(stack) - 1)
                            EXCEPT ![Len(stack) - 1].n = @ + 1]
            /\ UNCHANGED <<pc, bg>>
       ELSE /\ stack' = <<>>
            /\ bg' = [bg EXCEPT !.i = @ + 1]
            /\ pc' = "begin_loop"
    /\ UNCHANGED <<input, puzzle, solver, call, result>>

\* main after begin: duration / solutions.len() panics on a zero divisor,
\* otherwise the summary is printed and Ok(()) returned
MainSummary ==
    /\ pc = "summary"
    /\ pc' = IF Len(solver.solutions) = 0 THEN "panic" ELSE "exit_ok"
    /\ UNCHANGED <<input, puzzle, solver, arrangement, bg, stack, call, result>>

Next ==
    \/ MainParse
    \/ Begin
    \/ BeginLoop
    \/ SolveBoardEnter
    \/ SolveBoardLoop
    \/ SolveBoardReturn
    \/ MainSummary

Spec == Init /\ [][Next]_vars

\* ------------------------------------------------------------------------
\* The Arrangement used directly (specification SpecArr)
\* ------------------------------------------------------------------------

\* longest placement stack built
MaxStack == 3

\* pushed placements are the subsets of the cells 0..ArrCells-1
ArrCells == 2

\* pushed piece indices are 0..ArrPieces-1
ArrPieces == 2

\* the program is not running: the library is used directly
Idle ==
    /\ input = [ok |-> FALSE, rows |-> <<>>]
    /\ pc = "lib"
    /\ puzzle = NoPuzzle
    /\ solver = build
    /\ bg = [cid |-> 0, remaining |-> <<>>, i |-> 0]
    /\ stack = <<>>

InitArr ==
    /\ Idle
    /\ arrangement = new
    /\ call = NoCall
    /\ result = <<>>

\* Arrangement::push with any piece index and any placement
ArrPush ==
    /\ Len(arrangement.placements) < MaxStack
    /\ \E piece \in 0..(ArrPieces - 1), placement \in SUBSET (0..(ArrCells - 1)) :
           arrangement' = push(arrangement, piece, placement)
    /\ UNCHANGED <<input, pc, puzzle, solver, bg, stack, call, result>>

\* Arrangement::pop
ArrPop ==
    /\ arrangement' = pop(arrangement)
    /\ UNCHANGED <<input, pc, puzzle, solver, bg, stack, call, result>>

NextArr == ArrPush \/ ArrPop

SpecArr == InitArr /\ [][NextArr]_vars

\* ------------------------------------------------------------------------
\* Orientations and placements of one piece (specification SpecPlace)
\* ------------------------------------------------------------------------

\* largest coordinate of a cell of a base shape
MaxCoord == 2

\* largest number of cells of a base shape
MaxCells == 3

\* largest side of the volume
MaxSide == 3

\* a base shape as the file gives it: its cells in index order
ShapeOf(S) ==
    LET cells == SortedSeq(S)
        w     == MaxCoord + 1
    IN  [n \in 1..Len(cells) |->
            Coord(cells[n] % w, (cells[n] \div w) % w, cells[n] \div (w * w))]

\* every base shape of one to MaxCells cells with coordinates 0..MaxCoord
Shapes ==
    LET w == MaxCoord + 1
    IN  {ShapeOf(Range(f)) : f \in [1..MaxCells -> 0..(w * w * w - 1)]}

InitPlace ==
    /\ Idle
    /\ arrangement = new
    /\ call \in {[fn |-> "none", base |-> b, dim |-> Coord(d, d, d)] :
                    b \in Shapes, d \in 1..MaxSide}
    /\ result = <<>>

\* Piece::orientations on the chosen base
CallOrientations ==
    /\ call.fn = "none"
    /\ call' = [call EXCEPT !.fn = "orientations"]
    /\ result' = orientations(call.base)
    /\ UNCHANGED <<input, pc, puzzle, solver, arrangement, bg, stack>>

\* Puzzle::piece_placements on the chosen base and volume
CallPiecePlacements ==
    /\ call.fn = "none"
    /\ call' = [call EXCEPT !.fn = "piece_placements"]
    /\ result' = piece_placements(call.base, call.dim)
    /\ UNCHANGED <<input, pc, puzzle, solver, arrangement, bg, stack>>

NextPlace == CallOrientations \/ CallPiecePlacements

SpecPlace == InitPlace /\ [][NextPlace]_vars

\* ------------------------------------------------------------------------
\* can_pieces_fit called directly (specification SpecFit)
\* ------------------------------------------------------------------------

InitFit ==
    /\ input \in {[ok |-> TRUE, rows |-> f] : f \in PoolFiles}
    /\ pc = "lib"
    /\ puzzle = from_csv(input.rows)
    /\ solver = build
    /\ bg = [cid |-> 0, remaining |-> <<>>, i |-> 0]
    /\ stack = <<>>
    /\ arrangement = new
    /\ call \in {[fn |-> "none", tmp |-> t, pieces |-> SortedSeq(P)] :
                    t \in SUBSET puzzle.full,
                    P \in SUBSET (0..(Len(puzzle.pieces) - 1))}
    /\ result = <<>>

\* Solver::can_pieces_fit on the chosen occupancy and piece list
CallCanPiecesFit ==
    /\ call.fn = "none"
    /\ call' = [call EXCEPT !.fn = "can_pieces_fit"]
    /\ result' = can_pieces_fit(puzzle, call.tmp, call.pieces)
    /\ UNCHANGED <<input, pc, puzzle, solver, arrangement, bg, stack>>

NextFit == CallCanPiecesFit

SpecFit == InitFit /\ [][NextFit]_vars

\* ------------------------------------------------------------------------
\* Properties of the search (specification Spec)
\* ------------------------------------------------------------------------

\* begin has returned: the search is complete
SearchDone == pc \in {"summary", "exit_ok", "panic"}

Disjoint(sol) ==
    \A i, j \in 1..Len(sol) : i # j => ~intersects(sol[i][2], sol[j][2])

Covered(sol) == UNION {sol[i][2] : i \in 1..Len(sol)}

\* C1: every recorded solution is an exact cover: its placements are
\* pairwise disjoint and their union is the full mask of the puzzle.
C1_ExactCover ==
    \A k \in 1..Len(solver.solutions) :
        /\ Disjoint(solver.solutions[k])
        /\ Covered(solver.solutions[k]) = puzzle.full

\* C2: in every recorded solution each piece index appears exactly once and
\* is paired with a member of that piece's own placement list.
C2_OwnPlacements ==
    \A k \in 1..Len(solver.solutions) :
        LET sol == solver.solutions[k]
        IN  /\ Len(sol) = Len(puzzle.pieces)
            /\ {sol[i][1] : i \in 1..Len(sol)} = 0..(Len(puzzle.pieces) - 1)
            /\ \A i \in 1..Len(sol) :
                   sol[i][2] \in Range(PlacementsOf(puzzle, sol[i][1]))

\* every way to give each listed piece one of its placements so that they
\* are pairwise disjoint, disjoint from occ, and reach the full mask with
\* occ; each way is a set of <<piece, placement>> pairs
RECURSIVE Tilings(_, _, _)
Tilings(pz, occ, pieces) ==
    IF pieces = <<>>
    THEN IF occ = pz.full THEN {{}} ELSE {}
    ELSE LET pid  == Head(pieces)
             free == {m \in Range(PlacementsOf(pz, pid)) : ~intersects(occ, m)}
         IN  UNION {{ {<<pid, m>>} \cup t :
                          t \in Tilings(pz, union(occ, m), Tail(pieces)) } :
                    m \in free}

TwoCongruentTetracubes(rows) ==
    /\ Len(rows) = 2
    /\ Len(rows[1]) = 4
    /\ Len(rows[2]) = 4
    /\ {OrientationKey(o) : o \in Range(orientations(from_str(rows[1])))}
         = {OrientationKey(o) : o \in Range(orientations(from_str(rows[2])))}

\* C5: for two congruent 4-cell pieces the completed search has recorded a
\* solution whose two placements are disjoint and cover all 8 cells.
C5_TwoPieceCube ==
    (SearchDone /\ TwoCongruentTetracubes(input.rows)) =>
        \E k \in 1..Len(solver.solutions) :
            /\ Len(solver.solutions[k]) = 2
            /\ Disjoint(solver.solutions[k])
            /\ Covered(solver.solutions[k]) = 0..7

\* C8: the run ends in failure only on a file-open or parse failure; a
\* completed search, with or without solutions, ends in the normal exit.
C8_ZeroSolutionsExitOk ==
    /\ pc \in {"panic", "exit_err"} => ~input.ok
    /\ (SearchDone /\ pc # "summary") => pc = "exit_ok"

\* every index below prev is occupied when the call at the top is entered
BelowPrevOccupied ==
    (pc = "solve" /\ Top.at = "entry") =>
        \A c \in 0..(Top.prev - 1) : c \in arrangement.occupied

\* the placement committed at the node of each call that has a call below
\* it (the j-th frame committed the (j+1)-th entry of the arrangement)
\* covers that node's target
CommittedCoverTarget ==
    \A j \in 1..(Len(stack) - 1) :
        stack[j].cube \in arrangement.placements[j + 1][2]

AsEntered == pc = "solve" => arrangement = Top.entered

\* begin holds the empty arrangement before each start placement and when
\* it returns
EmptyOutsideCalls ==
    (pc = "begin_loop" \/ SearchDone) => arrangement = new

\* a step of the search changes, besides the arrangement and the position
\* of the calls, only the solver's explored counter and solution list: the
\* puzzle, the input, begin's constrained piece and remaining list, and the
\* arguments of every call that is still running stay as they are
OnlySolverChanges ==
    pc = "solve" =>
        /\ UNCHANGED <<input, puzzle, call, result>>
        /\ bg'.cid = bg.cid
        /\ bg'.remaining = bg.remaining
        /\ solver'.explored >= solver.explored
        /\ SubSeq(solver'.solutions, 1, Len(solver.solutions))
               = solver.solutions
        /\ \A j \in 1..Len(stack) :
               j <= Len(stack') =>
                   /\ stack'[j].entered = stack[j].entered
                   /\ stack'[j].prev = stack[j].prev
                   /\ stack'[j].remaining = stack[j].remaining

\* C11: every commit of the search is paired with an undo. When a call of
\* solve_board returns, the arrangement (occupancy and placement stack) is
\* identical to the one the call was entered with; when begin returns the
\* arrangement is empty; between the entry and the return of a call only
\* the explored counter and the solution list have changed.
C11_CommitUndone ==
    /\ []AsEntered
    /\ []EmptyOutsideCalls
    /\ [][OnlySolverChanges]_vars

\* a call below the top level returns after it committed a placement and
\* the calls under it counted nodes and recorded a solution
C11_Witness ==
    /\ pc = "solve"
    /\ Len(stack) >= 2
    /\ Top.at = "ret"
    /\ (Top.idx > 1 \/ Top.n > 1)
    /\ Len(solver.solutions) > 0
    /\ solver.explored > Len(stack)

\* ------------------------------------------------------------------------
\* Properties of the Arrangement (specification SpecArr)
\* ------------------------------------------------------------------------

\* occupied is the union of the placements on the stack, and no two of
\* them share a bit
ArrInv ==
    /\ arrangement.occupied = Covered(arrangement.placements)
    /\ Disjoint(arrangement.placements)

\* the step is a push: the stack grew by one entry
IsPush == Len(arrangement'.placements) = Len(arrangement.placements) + 1

\* the placement pushed by the step shares no bit with the occupancy before
PushedApart ==
    ~intersects(arrangement.occupied,
                arrangement'.placements[Len(arrangement'.placements)][2])

\* C4 as stated: after any sequence of push and pop from new the occupancy
\* is the union of the stacked placements and no two share a bit, and a pop
\* right after a push gives back the arrangement as it was before the push.
C4_AnyPushPop ==
    /\ []ArrInv
    /\ [][IsPush => pop(arrangement') = arrangement]_vars

\* C4 amended: as long as every pushed placement shares no bit with the
\* occupancy at the time of its push, each push and each pop keeps the
\* occupancy equal to the union of the stacked placements with no two of
\* them sharing a bit, and a pop right after such a push gives back the
\* arrangement exactly as it was before the push.
C4_DisjointPushPop ==
    [][(ArrInv /\ (IsPush => PushedApart)) =>
           (ArrInv' /\ (IsPush => pop(arrangement') = arrangement))]_vars

\* two placements, neither empty, are stacked and share no bit
C4_Witness ==
    /\ ArrInv
    /\ Len(arrangement.placements) = 2
    /\ \A i \in 1..2 : arrangement.placements[i][2] # {}

\* ------------------------------------------------------------------------
\* Properties of orientations and placements (specification SpecPlace)
\* ------------------------------------------------------------------------

\* the exponents of rotate_x, rotate_y, rotate_z whose compositions make up
\* the 24 rotations
Turns == (0..3) \X (0..3) \X (0..3)

\* the shape moved so that its minimum on each axis is 0
Normalised(o) ==
    LET min_x == MinOf({o[i].x : i \in 1..Len(o)})
        min_y == MinOf({o[i].y : i \in 1..Len(o)})
        min_z == MinOf({o[i].z : i \in 1..Len(o)})
    IN  {Coord(o[i].x - min_x, o[i].y - min_y, o[i].z - min_z) :
            i \in 1..Len(o)}

Inside(c, dim) ==
    /\ c.x \in 0..(dim.x - 1)
    /\ c.y \in 0..(dim.y - 1)
    /\ c.z \in 0..(dim.z - 1)

\* the bitmasks of the base under a rotation followed by a translation that
\* keeps every cell inside the volume
LegalPlacements(base, dim) ==
    UNION {
        LET cells == Normalised(TurnZ(TurnY(TurnX(base, t[1]), t[2]), t[3]))
        IN  {{(c.z + dz) * dim.y * dim.x + (c.y + dy) * dim.x + (c.x + dx) :
                  c \in cells} :
             <<dx, dy, dz>> \in
                 {d \in (0..(dim.x - 1)) \X (0..(dim.y - 1)) \X (0..(dim.z - 1)) :
                     \A c \in cells :
                         Inside(Coord(c.x + d[1], c.y + d[2], c.z + d[3]), dim)}}
        : t \in Turns}

\* C6: the list returned by piece_placements holds exactly the legal
\* placements of the base shape as given: every rotation of it at every
\* translation that keeps it inside the volume, and nothing else.
C6_ExactlyLegalPlacements ==
    call.fn = "piece_placements" =>
        Range(result) = LegalPlacements(call.base, call.dim)

\* C7: the list returned by orientations holds every rotation of the base
\* shape and is closed under rotation: any rotation of any returned
\* orientation, normalised again, has the frame bitmask of a returned one.
C7_OrientationClosure ==
    call.fn = "orientations" =>
        LET keys == {OrientationKey(o) : o \in Range(result)}
        IN  /\ \A t \in Turns :
                   OrientationKey(rotate(call.base, t[1], t[2], t[3])) \in keys
            /\ \A o \in Range(result) : \A t \in Turns :
                   OrientationKey(rotate(o, t[1], t[2], t[3])) \in keys

\* ------------------------------------------------------------------------
\* Property of can_pieces_fit (specification SpecFit)
\* ------------------------------------------------------------------------

\* C9: can_pieces_fit returns true exactly when every listed piece has, on
\* its own, at least one placement that does not intersect tmp.
C9_EveryPieceHasFreePlacement ==
    call.fn = "can_pieces_fit" =>
        (result <=>
            \A i \in 1..Len(call.pieces) :
                \E m \in Range(PlacementsOf(puzzle, call.pieces[i])) :
                    ~intersects(call.tmp, m))

=============================================================================
